---- MODULE Spec2Model ----
(***************************************************************************)
(* Build-time utilities around world.json:                                 *)
(*   - the sort-regions script        (src/unnamed/part_000)               *)
(*   - the WKT -> SVG conversion      (src/util/convert-wkt-to-svg.ts)     *)
(*   - the high-res stripping script  (src/util/convert-wkt-to-svg.ts,     *)
(*                                     lines 197-213)                      *)
(*   - the schema validation scripts  (src/src/validate-schema.js,         *)
(*                                     src/unnamed/part_001)               *)
(* Each script is a separate process; each has its own specification.      *)
(*                                                                         *)
(* Strings whose characters matter (region codes) are sequences of         *)
(* one-character strings; a JavaScript object is the sequence of its       *)
(* own properties, [key, value], in OrdinaryOwnPropertyKeys order.         *)
(***************************************************************************)
EXTENDS Integers, Sequences, FiniteSets, TLC

VARIABLES
    \* sort-regions script
    sortWorld,            \* regions of src/world.json, in file order
    sortInput,            \* history: regions of the file before the first run
    sortPrev,             \* history: regions of the file before the last run
    sortRuns,             \* history: number of completed runs of the script
    \* convert-wkt-to-svg
    worldDataDev,         \* the parsed input dataset
    globalPathGenerator,  \* the module-level projection / path generator
    projBuilds,           \* history: number of assignments to globalPathGenerator
    worldDataProd,        \* the dataset under construction
    regionIdx,            \* position of the loop over Object.entries(regions)
    convPc,               \* "start", "loop", "done", "thrown"
    convError,            \* message of the uncaught Error, or NoError
    outputFile,           \* src/world-prod.json, or Unwritten
    \* high-res stripping script
    stripInput,           \* history: the parsed src/world.json
    stripData,            \* `data`, mutated in place
    stripIdx,             \* position of the for-in loop
    stripPc,              \* "loop", "done"
    stripOut,             \* src/world-high-res.json, or Unwritten
    \* schema validation scripts
    valScript,            \* which of the two scripts runs
    valArgv,              \* process.argv[2], process.argv[3] (presence)
    valViolations,        \* the violations of the document against the schema
    valStderr,            \* lines written by console.error
    valStdout,            \* lines written by console.log
    valExit               \* Running, or the exit status

sortVars  == <<sortWorld, sortInput, sortPrev, sortRuns>>
convVars  == <<worldDataDev, globalPathGenerator, projBuilds, worldDataProd,
               regionIdx, convPc, convError, outputFile>>
stripVars == <<stripInput, stripData, stripIdx, stripPc, stripOut>>
valVars   == <<valScript, valArgv, valViolations, valStderr, valStdout, valExit>>
vars      == <<sortVars, convVars, stripVars, valVars>>

Idle == "idle"

SortIdle ==
    /\ sortWorld = Idle /\ sortInput = Idle /\ sortPrev = Idle /\ sortRuns = Idle

ConvIdle ==
    /\ worldDataDev = Idle /\ globalPathGenerator = Idle /\ projBuilds = Idle
    /\ worldDataProd = Idle /\ regionIdx = Idle /\ convPc = Idle
    /\ convError = Idle /\ outputFile = Idle

StripIdle ==
    /\ stripInput = Idle /\ stripData = Idle /\ stripIdx = Idle
    /\ stripPc = Idle /\ stripOut = Idle

ValIdle ==
    /\ valScript = Idle /\ valArgv = Idle /\ valViolations = Idle
    /\ valStderr = Idle /\ valStdout = Idle /\ valExit = Idle

(***************************************************************************)
(* Bounds of the model.                                                    *)
(***************************************************************************)
MaxSortRegions == 5
MaxSortRuns == 2
MaxRegions == 2
MaxViolations == 3

(***************************************************************************)
(* Strings and JavaScript objects.                                         *)
(***************************************************************************)
Range(s) == {s[i] : i \in 1..Len(s)}

Digits == <<"0", "1", "2", "3", "4", "5", "6", "7", "8", "9">>
Lower  == <<"a", "b", "c", "d", "e", "f", "g", "h", "i", "j", "k", "l", "m",
            "n", "o", "p", "q", "r", "s", "t", "u", "v", "w", "x", "y", "z">>

IsDigit(c) == c \in Range(Digits)

\* UTF-16 code unit of a character
CodeUnit(c) ==
    IF IsDigit(c)
    THEN 47 + (CHOOSE i \in 1..Len(Digits) : Digits[i] = c)
    ELSE 96 + (CHOOSE i \in 1..Len(Lower) : Lower[i] = c)

\* The comparison of Array.prototype.sort without a comparator: strings are
\* ordered by their UTF-16 code units, a proper prefix before its extensions.
RECURSIVE StringLess(_, _)
StringLess(s, t) ==
    IF t = <<>> THEN FALSE
    ELSE IF s = <<>> THEN TRUE
    ELSE IF CodeUnit(Head(s)) # CodeUnit(Head(t))
         THEN CodeUnit(Head(s)) < CodeUnit(Head(t))
         ELSE StringLess(Tail(s), Tail(t))

RECURSIVE SortInsert(_, _)
SortInsert(x, sorted) ==
    IF sorted = <<>> THEN <<x>>
    ELSE IF StringLess(x, Head(sorted)) THEN <<x>> \o sorted
    ELSE <<Head(sorted)>> \o SortInsert(x, Tail(sorted))

\* A mutant of ArraySort: the array is reversed, not sorted.
RECURSIVE ArrayReverse(_)
ArrayReverse(keys) ==
    IF keys = <<>> THEN <<>>
    ELSE Append(ArrayReverse(Tail(keys)), Head(keys))

\* keys.sort()
RECURSIVE ArraySort(_)
ArraySort(keys) ==
    IF keys = <<>> THEN <<>>
    ELSE SortInsert(Head(keys), ArraySort(Tail(keys)))

\* The largest array index, 2^32 - 2, as a string
MaxArrayIndex == <<"4", "2", "9", "4", "9", "6", "7", "2", "9", "4">>

\* The numeric order of two canonical numeric strings: the shorter is the
\* smaller, and of two of one length the one that is first by its digits.
NumericLess(a, b) ==
    IF Len(a) # Len(b) THEN Len(a) < Len(b) ELSE StringLess(a, b)

\* A property key that is an array index (a canonical numeric string of a
\* number below 2^32 - 1): such keys are enumerated first, in ascending
\* numeric order.
IsArrayIndex(key) ==
    /\ Len(key) >= 1
    /\ \A i \in 1..Len(key) : IsDigit(key[i])
    /\ (Len(key) = 1 \/ key[1] # "0")
    /\ (key = MaxArrayIndex \/ NumericLess(key, MaxArrayIndex))

ObjectKeys(obj) == [i \in 1..Len(obj) |-> obj[i].key]

HasKey(obj, key) == \E i \in 1..Len(obj) : obj[i].key = key

Get(obj, key) == obj[CHOOSE i \in 1..Len(obj) : obj[i].key = key].value

\* Position at which a new property is enumerated.
InsertAt(obj, key) ==
    IF IsArrayIndex(key)
    THEN Cardinality({i \in 1..Len(obj) :
                        /\ IsArrayIndex(obj[i].key)
                        /\ NumericLess(obj[i].key, key)}) + 1
    ELSE Len(obj) + 1

\* obj[key] = value
ObjectSet(obj, key, value) ==
    IF HasKey(obj, key)
    THEN [i \in 1..Len(obj) |->
            IF obj[i].key = key THEN [key |-> key, value |-> value] ELSE obj[i]]
    ELSE LET p == InsertAt(obj, key)
         IN  SubSeq(obj, 1, p - 1) \o <<[key |-> key, value |-> value]>>
               \o SubSeq(obj, p, Len(obj))

\* The object JSON.parse builds from the members of a JSON object, in text order.
RECURSIVE JSONParse(_)
JSONParse(members) ==
    IF members = <<>> THEN <<>>
    ELSE LET m == members[Len(members)]
         IN  ObjectSet(JSONParse(SubSeq(members, 1, Len(members) - 1)), m.key, m.value)

\* The members JSON.stringify writes: the own properties in enumeration order.
JSONStringify(obj) == [i \in 1..Len(obj) |-> obj[i]]

\* The sequences of at most n distinct elements of S.
RECURSIVE DistinctSeqs(_, _)
DistinctSeqs(S, n) ==
    IF n = 0 THEN {<<>>}
    ELSE LET shorter == DistinctSeqs(S, n - 1)
         IN  shorter \cup
             UNION {{Append(s, k) : k \in S \ Range(s)} :
                        s \in {t \in shorter : Len(t) = n - 1}}

(***************************************************************************)
(* The sort-regions script (src/unnamed/part_000).                         *)
(***************************************************************************)
can        == <<"c", "a", "n">>
gbr        == <<"g", "b", "r">>
usa        == <<"u", "s", "a">>
texas      == <<"t", "e", "x", "a", "s">>
california == <<"c", "a", "l", "i", "f", "o", "r", "n", "i", "a">>
k840       == <<"8", "4", "0">>
k1000      == <<"1", "0", "0", "0">>
k4294967294 == MaxArrayIndex

SortKeys == {can, gbr, usa, texas, california, k840, k1000, k4294967294}

\* The regions of a world.json: distinct keys, the i-th member carrying the
\* region record written i-th in the file.
SortFiles ==
    {[i \in 1..Len(ks) |-> [key |-> ks[i], value |-> i]] :
        ks \in DistinctSeqs(SortKeys, MaxSortRegions)}

InitSort ==
    /\ sortWorld \in SortFiles
    /\ sortInput = sortWorld
    /\ sortPrev = sortWorld
    /\ sortRuns = 0
    /\ ConvIdle /\ StripIdle /\ ValIdle

\* lines 10-16: the keys of exactly three characters, in enumeration order
ThreeCharKeys(regions) == SelectSeq(ObjectKeys(regions), LAMBDA k : Len(k) = 3)

\* lines 10-16: every other key, in enumeration order
LongerKeys(regions) == SelectSeq(ObjectKeys(regions), LAMBDA k : Len(k) # 3)

\* lines 19-23
SortedKeys(regions) ==
    ArraySort(ThreeCharKeys(regions)) \o ArraySort(LongerKeys(regions))

\* lines 26-29: reduce over sortedKeys, acc[key] = data.regions[key]
RECURSIVE BuildSorted(_, _)
BuildSorted(keys, regions) ==
    IF keys = <<>> THEN <<>>
    ELSE LET k == keys[Len(keys)]
         IN  ObjectSet(BuildSorted(SubSeq(keys, 1, Len(keys) - 1), regions),
                       k, Get(regions, k))

\* The whole script: read, split, sort, rebuild, write back.
SortRegions ==
    /\ sortRuns < MaxSortRuns
    /\ LET regions == JSONParse(sortWorld)
           sortedRegions == BuildSorted(SortedKeys(regions), regions)
       IN  sortWorld' = JSONStringify(sortedRegions)
    /\ sortPrev' = sortWorld
    /\ sortRuns' = sortRuns + 1
    /\ UNCHANGED <<sortInput, convVars, stripVars, valVars>>

NextSort == SortRegions

SpecSort == InitSort /\ [][NextSort]_vars

\* Strictly ascending in the order of StringLess.
Alphabetical(keys) ==
    \A i \in 1..Len(keys) - 1 : StringLess(keys[i], keys[i + 1])

\* All keys of three characters first, alphabetically, then all longer keys,
\* alphabetically.
ThreeCharThenLonger(keys) ==
    \E n \in 0..Len(keys) :
        /\ \A i \in 1..n : Len(keys[i]) = 3
        /\ \A i \in n + 1..Len(keys) : Len(keys[i]) > 3
        /\ Alphabetical(SubSeq(keys, 1, n))
        /\ Alphabetical(SubSeq(keys, n + 1, Len(keys)))

\* The same keys, each mapped to the same value.
SameMapping(a, b) ==
    /\ Range(ObjectKeys(a)) = Range(ObjectKeys(b))
    /\ Len(a) = Len(b)
    /\ \A k \in Range(ObjectKeys(a)) : Get(a, k) = Get(b, k)

\* C7: after the script has run, the file lists all 3-character keys first,
\* alphabetically, then all longer keys, alphabetically, and it holds the same
\* keys, each mapped to the same region, as the input.
C7_SortedOrder ==
    sortRuns >= 1 =>
        /\ ThreeCharThenLonger(ObjectKeys(sortWorld))
        /\ SameMapping(sortWorld, sortInput)

\* C8: a second run of the script on its own output leaves the file as it is,
\* the same members in the same order.
C8_SortIdempotent ==
    sortRuns >= 2 => sortWorld = sortPrev

\* A second run has happened on a file the first run had to reorder.
C8_Witness ==
    /\ sortRuns = 2
    /\ sortWorld # sortInput
    /\ Len(ThreeCharKeys(sortWorld)) >= 2
    /\ Len(LongerKeys(sortWorld)) >= 2

(***************************************************************************)
(* The WKT -> SVG conversion (src/util/convert-wkt-to-svg.ts, 1-195).      *)
(*                                                                         *)
(* An object with optional properties is a record whose DOMAIN holds the   *)
(* properties it has.  A value that may be null/undefined is None or       *)
(* Some(v).                                                                *)
(***************************************************************************)
None == <<>>
Some(v) == <<v>>

HasProp(o, p) == p \in DOMAIN o

WIDTH == 1600
HEIGHT == 900

\* Geometry texts, by what the two libraries do with them.
PolygonA   == "POLYGON ((0 0, 4 0, 4 4, 0 0))"
PolygonB   == "POLYGON ((8 8, 9 8, 9 9, 8 8))"
NotWKT     == "not a geometry"      \* wellknown's parse returns null
NoPathWKT  == "geometry without a drawable part"
                                    \* parses; the path generator returns null

\* wellknown's parse(wkt): the GeoJSON geometry, or null
Parse(wkt) ==
    IF wkt \in {PolygonA, PolygonB, NoPathWKT}
    THEN Some([type |-> "Geometry", of |-> wkt])
    ELSE None

\* lines 76-100: the generator fitted to every parseable high-res geometry.
\* fitSize does not throw on an empty collection: the projection it leaves
\* has no usable scale or translation.
InitializeGlobalProjection(worldDev) ==
    LET regions == worldDev.regions
        hasHighRes(i) ==
            /\ HasProp(regions[i].value, "areas")
            /\ HasProp(regions[i].value.areas, "high-res")
            /\ regions[i].value.areas["high-res"].areaWKT # ""
            /\ Parse(regions[i].value.areas["high-res"].areaWKT) # None
        withHighRes == SelectSeq([i \in 1..Len(regions) |-> i], hasHighRes)
    IN  [fittedTo |->
            [j \in 1..Len(withHighRes) |->
                Parse(regions[withHighRes[j]].value.areas["high-res"].areaWKT)[1]]]

\* line 111: globalPathGenerator(geojson), the path string or null.  With a
\* projection fitted to nothing the coordinates are not numbers, and the
\* generator may return null or a path of them.
PathOutcomes(generator, geojson) ==
    LET path == [projection |-> generator.fittedTo, geometry |-> geojson.of]
    IN  IF geojson.of = NoPathWKT THEN {None}
        ELSE IF generator.fittedTo = <<>> THEN {None, Some(path)}
        ELSE {Some(path)}

\* lines 102-118: the outcomes of convertWKTToSVG, a path or a thrown Error
ConvertWKTToSVG(generator, wkt) ==
    IF Parse(wkt) = None
    THEN {[threw |-> TRUE, error |-> "Failed to parse WKT"]}
    ELSE {IF svgPath = None
          THEN [threw |-> TRUE, error |-> "Failed to generate SVG path for WKT"]
          ELSE [threw |-> FALSE, svgPath |-> svgPath[1]] :
             svgPath \in PathOutcomes(generator, Parse(wkt)[1])}

\* A mutant of ConvertRegionDev: an empty disputedRegions list is dropped.
ConvertRegionDevDropEmpty(regionDev, svgPath) ==
    LET regionProd ==
            [regionName |-> regionDev.regionName,
             areas |-> [t \in {"medium-res"} |-> [areaSVG |-> svgPath]]]
    IN  IF HasProp(regionDev, "disputedRegions") /\ regionDev.disputedRegions # <<>>
        THEN [p \in DOMAIN regionProd \cup {"disputedRegions"} |->
                IF p = "disputedRegions" THEN regionDev.disputedRegions
                ELSE regionProd[p]]
        ELSE regionProd

\* lines 120-147: convertRegionDev, given the path of the medium-res area
ConvertRegionDev(regionDev, svgPath) ==
    LET regionProd ==
            [regionName |-> regionDev.regionName,
             areas |-> [t \in {"medium-res"} |-> [areaSVG |-> svgPath]]]
    IN  IF HasProp(regionDev, "disputedRegions")
        THEN [p \in DOMAIN regionProd \cup {"disputedRegions"} |->
                IF p = "disputedRegions" THEN regionDev.disputedRegions
                ELSE regionProd[p]]
        ELSE regionProd

\* A mutant of SkipsRegion: the length of the code is not looked at.
SkipsRegionAnyLength(regionCode, regionDev) ==
    IF ~HasProp(regionDev, "areas") THEN TRUE
    ELSE ~HasProp(regionDev.areas, "medium-res")

\* A mutant of SkipsRegion: a region without high-res is skipped too.
SkipsRegionNeedsHighRes(regionCode, regionDev) ==
    IF Len(regionCode) > 3 THEN TRUE
    ELSE IF ~HasProp(regionDev, "areas") THEN TRUE
    ELSE IF ~HasProp(regionDev.areas, "medium-res") THEN TRUE
    ELSE ~HasProp(regionDev.areas, "high-res")

\* line 168: the condition under which the loop skips a region
SkipsRegion(regionCode, regionDev) ==
    IF Len(regionCode) > 3 THEN TRUE
    ELSE IF ~HasProp(regionDev, "areas") THEN TRUE
    ELSE ~HasProp(regionDev.areas, "medium-res")

Tiers == {"low-res", "medium-res", "high-res"}

SourceMetadata == [layerName |-> "layer", entityIdentifier |-> "entity"]

AreaDev(wkt) == [areaWKT |-> wkt, sourceMetadata |-> SourceMetadata]

TierWKT(t) ==
    IF t = "low-res" THEN {PolygonA}
    ELSE IF t = "medium-res" THEN {PolygonA, NotWKT, NoPathWKT}
    ELSE {PolygonB, NotWKT}

\* The `areas` objects with any of the tiers, medium-res and high-res each
\* with a text that converts or one that does not.
GeometryAreas ==
    UNION {{[t \in T |-> AreaDev(w[t])] :
                w \in {f \in [T -> {PolygonA, PolygonB, NotWKT, NoPathWKT}] :
                          \A t \in T : f[t] \in TierWKT(t)}} :
           T \in SUBSET Tiers}

RegionNameOf(code) ==
    IF code = usa THEN "United States"
    ELSE IF code = can THEN "Canada"
    ELSE IF code = texas THEN "Texas"
    ELSE "Region 840"

Controlled ==
    [controlType |-> "CONTROLLED",
     areaReference |-> [referenceType |-> "regionReference", referenceId |-> "usa"]]

\* A region record: regionName, optionally areas, optionally disputedRegions.
RegionWith(code, areas, disputed) ==
    [p \in {"regionName"} \cup (IF areas = None THEN {} ELSE {"areas"})
           \cup (IF disputed = None THEN {} ELSE {"disputedRegions"}) |->
        IF p = "regionName" THEN RegionNameOf(code)
        ELSE IF p = "areas" THEN areas[1]
        ELSE disputed[1]]

\* Regions whose geometry varies: every tier absent or present, readable or not.
GeometryRegions(code) ==
    {RegionWith(code, a, None) :
        a \in {None} \cup {Some(x) : x \in GeometryAreas}}

FullAreas == [t \in Tiers |-> AreaDev(IF t = "high-res" THEN PolygonB ELSE PolygonA)]

\* Regions whose pass-through data varies.
PassThroughRegions(code) ==
    {RegionWith(code, a, d) :
        a \in {None, Some([t \in {"low-res"} |-> AreaDev(PolygonA)]), Some(FullAreas)},
        d \in {None, Some(<<>>), Some(<<Controlled>>)}}

ConvertCodes == {usa, can, k840, texas}

RegionsOf(family, code) ==
    IF family = "geometry" THEN GeometryRegions(code) ELSE PassThroughRegions(code)

\* The members of a `regions` object with the given codes, in text order.
RECURSIVE RegionMembers(_, _)
RegionMembers(codes, family) ==
    IF codes = <<>> THEN {<<>>}
    ELSE LET code == codes[Len(codes)]
         IN  {Append(ms, [key |-> code, value |-> r]) :
                 ms \in RegionMembers(SubSeq(codes, 1, Len(codes) - 1), family),
                 r \in RegionsOf(family, code)}

CommonTerritories(family) ==
    IF family = "geometry" THEN {None}
    ELSE {None, Some(<<>>), Some(<<[key |-> <<"u", "s">>, value |-> "usa"]>>)}

DatasetWith(territories, regions) ==
    IF territories = None THEN [regions |-> regions]
    ELSE [commonTerritories |-> territories[1], regions |-> regions]

InitConvert ==
    /\ \E family \in {"geometry", "pass-through"} :
       \E codes \in DistinctSeqs(ConvertCodes, MaxRegions) :
       \E members \in RegionMembers(codes, family) :
       \E territories \in CommonTerritories(family) :
          \* line 184: JSON.parse of src/world.json
          worldDataDev = DatasetWith(territories, JSONParse(members))
    /\ globalPathGenerator = None
    /\ projBuilds = 0
    /\ worldDataProd = None
    /\ regionIdx = 0
    /\ convPc = "start"
    /\ convError = None
    /\ outputFile = None
    /\ SortIdle /\ StripIdle /\ ValIdle

\* lines 154-163: the empty prod dataset, with commonTerritories if there are any
EmptyProd(worldDev) ==
    IF HasProp(worldDev, "commonTerritories")
    THEN [width |-> WIDTH, height |-> HEIGHT, regions |-> <<>>,
          commonTerritories |-> worldDev.commonTerritories]
    ELSE [width |-> WIDTH, height |-> HEIGHT, regions |-> <<>>]

\* lines 149-163: convertWorldData up to its loop
BeginConvertWorldData ==
    /\ convPc = "start"
    /\ globalPathGenerator' = Some(InitializeGlobalProjection(worldDataDev))
    /\ projBuilds' = projBuilds + 1
    /\ worldDataProd' = Some(EmptyProd(worldDataDev))
    /\ regionIdx' = 1
    /\ convPc' = "loop"
    /\ UNCHANGED <<worldDataDev, convError, outputFile, sortVars, stripVars, valVars>>

AtRegion ==
    /\ convPc = "loop"
    /\ regionIdx <= Len(worldDataDev.regions)

CurrentCode == worldDataDev.regions[regionIdx].key
CurrentRegion == worldDataDev.regions[regionIdx].value

\* lines 166-171: a region the loop skips
SkipRegion ==
    /\ AtRegion
    /\ SkipsRegion(CurrentCode, CurrentRegion)
    /\ regionIdx' = regionIdx + 1
    /\ UNCHANGED <<worldDataDev, globalPathGenerator, projBuilds, worldDataProd,
                   convPc, convError, outputFile, sortVars, stripVars, valVars>>

\* A mutant of ConvertRegion: the projection is built again for each region.
ConvertRegionRebuilding ==
    /\ AtRegion
    /\ ~SkipsRegion(CurrentCode, CurrentRegion)
    /\ \E r \in ConvertWKTToSVG(globalPathGenerator[1],
                                CurrentRegion.areas["medium-res"].areaWKT) :
        /\ ~r.threw
        /\ worldDataProd' =
             Some([worldDataProd[1] EXCEPT !.regions =
                     ObjectSet(@, CurrentCode, ConvertRegionDev(CurrentRegion, r.svgPath))])
    /\ globalPathGenerator' = Some(InitializeGlobalProjection(worldDataDev))
    /\ projBuilds' = projBuilds + 1
    /\ regionIdx' = regionIdx + 1
    /\ UNCHANGED <<worldDataDev, convPc, convError, outputFile,
                   sortVars, stripVars, valVars>>

\* lines 166-173: a region converted and stored
ConvertRegion ==
    /\ AtRegion
    /\ ~SkipsRegion(CurrentCode, CurrentRegion)
    /\ \E r \in ConvertWKTToSVG(globalPathGenerator[1],
                                CurrentRegion.areas["medium-res"].areaWKT) :
        /\ ~r.threw
        /\ worldDataProd' =
             Some([worldDataProd[1] EXCEPT !.regions =
                     ObjectSet(@, CurrentCode, ConvertRegionDev(CurrentRegion, r.svgPath))])
    /\ regionIdx' = regionIdx + 1
    /\ UNCHANGED <<worldDataDev, globalPathGenerator, projBuilds, convPc, convError,
                   outputFile, sortVars, stripVars, valVars>>

\* lines 106-108, 113-115: the Error of convertWKTToSVG; nothing catches it,
\* so convertWorldData and main end with it and nothing is written
ConvertRegionThrows ==
    /\ AtRegion
    /\ ~SkipsRegion(CurrentCode, CurrentRegion)
    /\ \E r \in ConvertWKTToSVG(globalPathGenerator[1],
                                CurrentRegion.areas["medium-res"].areaWKT) :
        /\ r.threw
        /\ convError' = Some(r.error)
    /\ convPc' = "thrown"
    /\ UNCHANGED <<worldDataDev, globalPathGenerator, projBuilds, worldDataProd,
                   regionIdx, outputFile, sortVars, stripVars, valVars>>

\* lines 175, 187-192: the loop is over, main writes world-prod.json
WriteOutput ==
    /\ convPc = "loop"
    /\ regionIdx > Len(worldDataDev.regions)
    /\ outputFile' = Some([worldDataProd[1] EXCEPT !.regions = JSONStringify(@)])
    /\ convPc' = "done"
    /\ UNCHANGED <<worldDataDev, globalPathGenerator, projBuilds, worldDataProd,
                   regionIdx, convError, sortVars, stripVars, valVars>>

NextConvert ==
    \/ BeginConvertWorldData
    \/ SkipRegion
    \/ ConvertRegion
    \/ ConvertRegionThrows
    \/ WriteOutput

SpecConvert == InitConvert /\ [][NextConvert]_vars

ProdRegions == IF worldDataProd = None THEN <<>> ELSE worldDataProd[1].regions

WrittenRegions == IF outputFile = None THEN <<>> ELSE outputFile[1].regions

Terminated == convPc \in {"done", "thrown"}

\* The inclusion test as the specification words it.
Qualifies(code, regionDev) ==
    /\ Len(code) <= 3
    /\ HasProp(regionDev, "areas")
    /\ HasProp(regionDev.areas, "medium-res")

\* C1: every region code of the output, as built and as written, is a code of
\* the input, has at most 3 characters, and belongs to an input region with an
\* `areas` object holding a `medium-res` area.
C1_OnlyQualifyingRegions ==
    convPc # Idle =>
        \A k \in Range(ObjectKeys(ProdRegions)) \cup Range(ObjectKeys(WrittenRegions)) :
            /\ HasKey(worldDataDev.regions, k)
            /\ Len(k) <= 3
            /\ HasProp(Get(worldDataDev.regions, k), "areas")
            /\ HasProp(Get(worldDataDev.regions, k).areas, "medium-res")

\* A written output with a region in it, from an input that also holds a region
\* with a longer code and a medium-res area, and so none of it in the output.
C1_Witness ==
    /\ convPc = "done"
    /\ Len(WrittenRegions) >= 1
    /\ HasKey(worldDataDev.regions, texas)
    /\ HasProp(Get(worldDataDev.regions, texas), "areas")
    /\ HasProp(Get(worldDataDev.regions, texas).areas, "medium-res")

\* C2: when no conversion failed, the written output holds exactly the input
\* regions that pass the inclusion test, whatever their other tiers, in the
\* order the input lists them.
C2_ExactlyQualifyingInOrder ==
    convPc = "done" =>
        ObjectKeys(WrittenRegions) =
            SelectSeq(ObjectKeys(worldDataDev.regions),
                      LAMBDA k : Qualifies(k, Get(worldDataDev.regions, k)))

\* Two regions, the first with low-res only, the second with all three tiers:
\* the output holds exactly the second.
C2_Witness ==
    /\ convPc = "done"
    /\ Len(worldDataDev.regions) = 2
    /\ HasProp(worldDataDev.regions[1].value, "areas")
    /\ DOMAIN worldDataDev.regions[1].value.areas = {"low-res"}
    /\ HasProp(worldDataDev.regions[2].value, "areas")
    /\ DOMAIN worldDataDev.regions[2].value.areas = Tiers
    /\ ObjectKeys(WrittenRegions) = <<worldDataDev.regions[2].key>>

\* Two surviving regions, the later one alphabetically first and without high-res.
C2_WitnessOrder ==
    /\ convPc = "done"
    /\ ObjectKeys(WrittenRegions) = <<usa, can>>
    /\ ~HasProp(Get(worldDataDev.regions, can).areas, "high-res")

\* The medium-res text of an included region that cannot be converted.
HasGeometryProblem(regionDev) ==
    regionDev.areas["medium-res"].areaWKT \in {NotWKT, NoPathWKT}

\* C3: with a usable projection, an included region whose medium-res geometry
\* fails to parse or yields no path does not end the run: the output is written
\* and holds every other qualifying region.
C3_GeometryProblemIsLocal ==
    (Terminated /\ globalPathGenerator[1].fittedTo # <<>>) =>
        /\ convPc = "done"
        /\ \A i \in 1..Len(worldDataDev.regions) :
             LET m == worldDataDev.regions[i]
             IN  (Qualifies(m.key, m.value) /\ ~HasGeometryProblem(m.value))
                    => HasKey(WrittenRegions, m.key)

\* No region supplies a high-res geometry that parses.
NoHighResGeometry ==
    \A i \in 1..Len(worldDataDev.regions) :
        LET r == worldDataDev.regions[i].value
        IN  ~(/\ HasProp(r, "areas")
              /\ HasProp(r.areas, "high-res")
              /\ Parse(r.areas["high-res"].areaWKT) # None)

\* C4: when no region supplies a parseable high-res geometry the run ends with
\* EmptyExtentError, with no region converted and nothing written.
C4_EmptyExtentIsFatal ==
    (Terminated /\ NoHighResGeometry) =>
        /\ convError = Some("EmptyExtentError")
        /\ ProdRegions = <<>>
        /\ outputFile = None

\* C5: the projection is assigned once, before the first region is looked at,
\* never again, and every converted region carries a path of that projection.
C5_ProjectionBuiltOnce ==
    convPc # Idle =>
        /\ projBuilds <= 1
        /\ convPc = "start" =>
             (projBuilds = 0 /\ globalPathGenerator = None /\ ProdRegions = <<>>)
        /\ convPc # "start" =>
             /\ projBuilds = 1
             /\ globalPathGenerator = Some(InitializeGlobalProjection(worldDataDev))
             /\ \A i \in 1..Len(ProdRegions) :
                  ProdRegions[i].value.areas["medium-res"].areaSVG.projection
                      = globalPathGenerator[1].fittedTo

\* A finished run that converted two regions under a projection fitted to
\* something.
C5_Witness ==
    /\ convPc = "done"
    /\ Len(WrittenRegions) = 2
    /\ projBuilds = 1
    /\ globalPathGenerator[1].fittedTo # <<>>

\* The optional property p is in both objects, with equal values, or in neither.
SameOptional(a, b, p) ==
    /\ HasProp(a, p) <=> HasProp(b, p)
    /\ HasProp(a, p) => a[p] = b[p]

\* C6: every region of the output has the regionName of its input region and
\* its disputedRegions, if and only if the input has them; the output has the
\* input's commonTerritories, if and only if the input has them.
C6_PassThroughUnchanged ==
    convPc # Idle =>
        /\ \A regions \in {ProdRegions, WrittenRegions} :
             \A i \in 1..Len(regions) :
                LET out == regions[i].value
                    in  == Get(worldDataDev.regions, regions[i].key)
                IN  /\ out.regionName = in.regionName
                    /\ SameOptional(out, in, "disputedRegions")
        /\ \A file \in {worldDataProd, outputFile} :
             file # None => SameOptional(file[1], worldDataDev, "commonTerritories")

\* A written output with commonTerritories, one region with an empty
\* disputedRegions list and one without the property.
C6_Witness ==
    /\ convPc = "done"
    /\ HasProp(outputFile[1], "commonTerritories")
    /\ outputFile[1].commonTerritories # <<>>
    /\ Len(WrittenRegions) = 2
    /\ HasProp(WrittenRegions[1].value, "disputedRegions")
    /\ WrittenRegions[1].value.disputedRegions = <<>>
    /\ ~HasProp(WrittenRegions[2].value, "disputedRegions")

(***************************************************************************)
(* The high-res stripping script (src/util/convert-wkt-to-svg.ts, 197-213).*)
(***************************************************************************)
\* Regions with no `areas`, or with any of the three tiers.
StripRegions(code) ==
    {RegionWith(code, a, d) :
        a \in {None} \cup {Some([t \in T |-> AreaDev(IF t = "high-res" THEN PolygonB
                                                      ELSE PolygonA)]) :
                             T \in SUBSET Tiers},
        d \in {None, Some(<<Controlled>>)}}

RECURSIVE StripMembers(_)
StripMembers(codes) ==
    IF codes = <<>> THEN {<<>>}
    ELSE LET code == codes[Len(codes)]
         IN  {Append(ms, [key |-> code, value |-> r]) :
                 ms \in StripMembers(SubSeq(codes, 1, Len(codes) - 1)),
                 r \in StripRegions(code)}

InitStrip ==
    /\ \E codes \in DistinctSeqs(ConvertCodes, MaxRegions) :
       \E members \in StripMembers(codes) :
          \* line 203: JSON.parse of src/world.json
          stripData = [regions |-> JSONParse(members)]
    /\ stripInput = stripData
    /\ stripIdx = 1
    /\ stripPc = "loop"
    /\ stripOut = None
    /\ SortIdle /\ ConvIdle /\ ValIdle

StripAtRegion ==
    /\ stripPc = "loop"
    /\ stripIdx <= Len(stripData.regions)

\* line 207: region.areas && region.areas['high-res']
HasHighRes(region) ==
    IF ~HasProp(region, "areas") THEN FALSE
    ELSE HasProp(region.areas, "high-res")

\* lines 205-209: a region with a high-res area keeps that area alone
StripRegion ==
    /\ StripAtRegion
    /\ HasHighRes(stripData.regions[stripIdx].value)
    /\ stripData' =
         [stripData EXCEPT !.regions[stripIdx].value.areas =
             [t \in {"high-res"} |-> @["high-res"]]]
    /\ stripIdx' = stripIdx + 1
    /\ UNCHANGED <<stripInput, stripPc, stripOut, sortVars, convVars, valVars>>

\* lines 205-210: a region the condition of line 207 leaves as it is
LeaveRegion ==
    /\ StripAtRegion
    /\ ~HasHighRes(stripData.regions[stripIdx].value)
    /\ stripIdx' = stripIdx + 1
    /\ UNCHANGED <<stripInput, stripData, stripPc, stripOut, sortVars, convVars, valVars>>

\* lines 212-213: world-high-res.json is written
WriteHighRes ==
    /\ stripPc = "loop"
    /\ stripIdx > Len(stripData.regions)
    /\ stripOut' = Some([stripData EXCEPT !.regions = JSONStringify(@)])
    /\ stripPc' = "done"
    /\ UNCHANGED <<stripInput, stripData, stripIdx, sortVars, convVars, valVars>>

NextStrip ==
    \/ StripRegion
    \/ LeaveRegion
    \/ WriteHighRes

SpecStrip == InitStrip /\ [][NextStrip]_vars

\* C9: in the derived file no region has a low-res or medium-res area, the
\* region codes are those of the input, in its order, and every other field of
\* every region is the input's.
C9_OnlyHighResRemains ==
    stripPc = "done" =>
        /\ ObjectKeys(stripOut[1].regions) = ObjectKeys(stripInput.regions)
        /\ \A i \in 1..Len(stripOut[1].regions) :
             LET out == stripOut[1].regions[i].value
                 in  == stripInput.regions[i].value
             IN  /\ DOMAIN out = DOMAIN in
                 /\ \A p \in DOMAIN out \ {"areas"} : out[p] = in[p]
                 /\ HasProp(out, "areas") =>
                      /\ DOMAIN out.areas \subseteq {"high-res"}
                      /\ SameOptional(out.areas, in.areas, "high-res")

(***************************************************************************)
(* The schema validation scripts (src/src/validate-schema.js with fixed    *)
(* paths, src/unnamed/part_001 with the paths as arguments).  The document *)
(* is given by the violations of the schema it has, in Ajv's order.        *)
(***************************************************************************)
FixedPaths == "validate-schema.js"
PathArguments == "validate-schema.mjs"

Violations ==
    [instancePath : {"", "/regions/usa"},
     message : {"must have required property 'regionName'", "must be object"}]

RECURSIVE SeqsUpTo(_, _)
SeqsUpTo(S, n) ==
    IF n = 0 THEN {<<>>}
    ELSE LET shorter == SeqsUpTo(S, n - 1)
         IN  shorter \cup {Append(q, x) : q \in {t \in shorter : Len(t) = n - 1}, x \in S}

InitValidate ==
    /\ valScript \in {FixedPaths, PathArguments}
    /\ valArgv \in [schema : BOOLEAN, data : BOOLEAN]
    /\ valViolations \in SeqsUpTo(Violations, MaxViolations)
    /\ valStderr = <<>>
    /\ valStdout = <<>>
    /\ valExit = None
    /\ SortIdle /\ ConvIdle /\ StripIdle

\* A mutant of AjvOptions: allErrors is left at its default.
AjvOptionsDefault == [allErrors |-> FALSE, strict |-> FALSE]

\* validate-schema.js line 14, part_001 line 19
AjvOptions == [allErrors |-> TRUE, strict |-> FALSE]

\* validateSchema.errors: every violation with allErrors, else the first alone
AjvErrors(options, violations) ==
    IF options.allErrors \/ violations = <<>> THEN violations
    ELSE <<violations[1]>>

\* part_001 line 7: an argument is missing
ArgumentMissing ==
    /\ valScript = PathArguments
    /\ ~(valArgv.schema /\ valArgv.data)

\* validate-schema.js line 21, part_001 line 26: one console.error line
ErrorLine(err) ==
    <<"-", IF err.instancePath = "" THEN "(root)" ELSE err.instancePath, err.message>>

\* part_001 lines 7-10
UsageExit ==
    /\ valExit = None
    /\ ArgumentMissing
    /\ valStderr' = <<<<"Usage: node validate-schema.mjs <schema-file> <data-file>">>>>
    /\ valExit' = Some(1)
    /\ UNCHANGED <<valScript, valArgv, valViolations, valStdout,
                   sortVars, convVars, stripVars>>

\* validate-schema.js lines 18-24, part_001 lines 23-29
ValidationFails ==
    /\ valExit = None
    /\ ~ArgumentMissing
    /\ AjvErrors(AjvOptions, valViolations) # <<>>
    /\ LET errors == AjvErrors(AjvOptions, valViolations)
       IN  valStderr' = <<<<"Schema validation failed:">>>>
                           \o [i \in 1..Len(errors) |-> ErrorLine(errors[i])]
    /\ valExit' = Some(1)
    /\ UNCHANGED <<valScript, valArgv, valViolations, valStdout,
                   sortVars, convVars, stripVars>>

\* validate-schema.js lines 25-26, part_001 lines 29-30
ValidationSucceeds ==
    /\ valExit = None
    /\ ~ArgumentMissing
    /\ AjvErrors(AjvOptions, valViolations) = <<>>
    /\ valStdout' = <<"world.json is valid">>
    /\ valExit' = Some(0)
    /\ UNCHANGED <<valScript, valArgv, valViolations, valStderr,
                   sortVars, convVars, stripVars>>

NextValidate ==
    \/ UsageExit
    \/ ValidationFails
    \/ ValidationSucceeds

SpecValidate == InitValidate /\ [][NextValidate]_vars

\* The (location, message) pairs on stderr, after the heading.
Reported ==
    [i \in 1..Len(valStderr) - 1 |-> <<valStderr[i + 1][2], valStderr[i + 1][3]>>]

\* C10: the exit status is non-zero exactly when the document has a violation
\* or an argument is missing; a failed validation reports every violation, in
\* order, as (location, message); a conforming document reports success and no
\* error.
C10_ExitAndReport ==
    valExit # None =>
        /\ (valExit[1] # 0) <=> (valViolations # <<>> \/ ArgumentMissing)
        /\ (~ArgumentMissing /\ valViolations # <<>>) =>
             Reported = [i \in 1..Len(valViolations) |->
                           <<IF valViolations[i].instancePath = "" THEN "(root)"
                             ELSE valViolations[i].instancePath,
                             valViolations[i].message>>]
        /\ (~ArgumentMissing /\ valViolations = <<>>) =>
             (valStderr = <<>> /\ valStdout = <<"world.json is valid">>)

\* A failed validation of a document with three violations.
C10_Witness ==
    /\ valExit = Some(1)
    /\ ~ArgumentMissing
    /\ Len(valViolations) = 3
    /\ valViolations[1] # valViolations[2]
    /\ Len(valStderr) = 4

====
